---- MODULE Spec2Model ----
(***************************************************************************)
(* Model of the codebase documenter's asynchronous job pipeline:           *)
(*   backend/app.py      submission and polling endpoints                  *)
(*   backend/tasks.py    analyze_and_document, the job orchestrator        *)
(*   ai_agent/agent.py   DocumentationAgent, the five-stage pipeline       *)
(*   services/*.py       acquirer, file analyzer and the storage backends  *)
(* One action per handler or orchestrator step.  Every external call       *)
(* (clone, file read, text generation, copy, upload, rmtree) returns,      *)
(* raises, or is interrupted by the soft time limit, which celery delivers *)
(* as the exception SoftTimeLimitExceeded (a subclass of Exception) at     *)
(* most once per run; the hard time limit kills the worker process.        *)
(* Spec and LiveSpec are the runs of the jobs; ApiSpec is the endpoints as *)
(* recorded calls against a store that earlier runs have filled.           *)
(***************************************************************************)
EXTENDS Integers, Sequences, FiniteSets, TLC

\* The job ids uuid4 hands out (app.py:118); a run touches only what is keyed
\* by its own id, so two ids show every interleaving of one run with another.
Jobs == {"j1", "j2"}

-----------------------------------------------------------------------------
\* Strings the code takes apart (paths, file names, job ids in paths) are
\* sequences of tokens: a token is a run of characters no operation splits.
\* "." and "/" are tokens of their own, so ".." is << ".", "." >>.

README == << "README", ".", "md" >>
SETUP == << "SETUP", ".", "md" >>
METADATA == << "metadata", ".", "json" >>

\* str.startswith
startswith(s, prefix) ==
    Len(prefix) <= Len(s) /\ SubSeq(s, 1, Len(prefix)) = prefix

\* os.path.join(a, b): an absolute b discards a.
join(a, b) ==
    IF b # << >> /\ b[1] = "/" THEN b
    ELSE IF a = << >> \/ a[Len(a)] = "/" THEN a \o b
    ELSE a \o << "/" >> \o b

\* The components of a path between its separators, in order.
RECURSIVE split(_)
split(p) ==
    IF \A i \in DOMAIN p : p[i] # "/" THEN << p >>
    ELSE LET i == CHOOSE n \in DOMAIN p : p[n] = "/" /\ \A m \in 1..(n - 1) : p[m] # "/"
         IN << SubSeq(p, 1, i - 1) >> \o split(SubSeq(p, i + 1, Len(p)))

\* os.path.normpath on the components of an absolute path: empty and "."
\* components are dropped, ".." drops the component before it (none at the root).
RECURSIVE collapse(_, _)
collapse(done, rest) ==
    IF rest = << >> THEN done
    ELSE IF Head(rest) \in {<< >>, << "." >>} THEN collapse(done, Tail(rest))
    ELSE IF Head(rest) = << ".", "." >>
    THEN collapse(IF done = << >> THEN done ELSE SubSeq(done, 1, Len(done) - 1), Tail(rest))
    ELSE collapse(Append(done, Head(rest)), Tail(rest))

\* The path "/c1/c2/..." of a sequence of components ("/" for none).
RECURSIVE unsplit(_)
unsplit(cs) ==
    IF cs = << >> THEN << >> ELSE << "/" >> \o Head(cs) \o unsplit(Tail(cs))

\* os.path.abspath of a path that is absolute already (every path the model
\* resolves starts with base_dir).
abspath(p) ==
    LET cs == collapse(<< >>, split(p)) IN IF cs = << >> THEN << "/" >> ELSE unsplit(cs)

\* The length of the longest common prefix of two sequences of components.
RECURSIVE commonprefix(_, _)
commonprefix(a, b) ==
    IF a = << >> \/ b = << >> \/ Head(a) # Head(b) THEN 0
    ELSE 1 + commonprefix(Tail(a), Tail(b))

\* os.path.relpath(path, start) of two absolute paths: ".." for every component
\* of start after the common prefix, then the rest of path; "." for none.
relpath(path, start) ==
    LET p == collapse(<< >>, split(path))
        s == collapse(<< >>, split(start))
        n == commonprefix(p, s)
        cs == [i \in 1..(Len(s) - n) |-> << ".", "." >>] \o SubSeq(p, n + 1, Len(p))
    IN IF cs = << >> THEN << "." >> ELSE Tail(unsplit(cs))

\* os.path.basename
basename(p) ==
    IF \A i \in DOMAIN p : p[i] # "/" THEN p
    ELSE LET i == CHOOSE n \in DOMAIN p : p[n] = "/" /\ \A m \in (n + 1)..Len(p) : p[m] # "/"
         IN SubSeq(p, i + 1, Len(p))

\* os.path.dirname of a relative path, "" when it has no separator.
dirname(p) ==
    IF \A i \in DOMAIN p : p[i] # "/" THEN << >>
    ELSE LET i == CHOOSE n \in DOMAIN p : p[n] = "/" /\ \A m \in (n + 1)..Len(p) : p[m] # "/"
         IN SubSeq(p, 1, i - 1)

\* tasks.py line 83: file_path.replace('/', '_').replace('.', '_') + '.md'
safe_name(file_path) ==
    [i \in DOMAIN file_path |->
        IF file_path[i] \in {"/", "."} THEN "_" ELSE file_path[i]] \o << ".", "md" >>

\* The job id as it appears in paths.
IdOf(j) == IF j = "j1" THEN << "j", "1" >> ELSE << "j", "2" >>

\* LocalStorageService.base_dir
base_dir == << "/", "tmp", "/", "codebase_docs" >>

Range(q) == {q[i] : i \in DOMAIN q}

\* q[:n]
Take(q, n) == SubSeq(q, 1, IF Len(q) < n THEN Len(q) ELSE n)

\* An entry of analysis['code_files']: the path relative to the working copy and
\* the size in bytes; and what the file holds: text, text that starts with
\* "[", or nothing a read gets at (open raises).
File(path, size, content) == [path |-> path, size |-> size, content |-> content]

Text == << "text" >>
BracketText == << "[", "text" >>
Unreadable == << >>

\* analysis['code_files'] for the repository job j documents, in the order
\* os.walk comes to the files: a_b.py and a/b.py for j1, s/m.py for j2.
code_files(r) ==
    IF r = "j1"
    THEN << File(<< "a", "_", "b", ".", "py" >>, 100, Text),
            File(<< "a", "/", "b", ".", "py" >>, 100, Text) >>
    ELSE << File(<< "s", "/", "m", ".", "py" >>, 100, Text) >>

\* The keys of FileAnalyzer.group_files_by_directory's dict in insertion order,
\* << >> standing for '.', the key of the files at the root.
RECURSIVE group_files_by_directory(_)
group_files_by_directory(files) ==
    IF files = << >> THEN << >>
    ELSE LET before == group_files_by_directory(SubSeq(files, 1, Len(files) - 1))
             directory == dirname(files[Len(files)].path)
         IN IF directory \in Range(before) THEN before ELSE Append(before, directory)

\* The caps of stages 3 and 4: [:5] directories, [:3] key files.
MaxDirectories == 5
MaxKeyFiles == 3

\* documented_directories, had the loop not skipped '.'.
documented_directories_keepsRoot(files) ==
    Take(group_files_by_directory(files), MaxDirectories)

\* documented_directories, had the slice [:5] been left out.
documented_directories_uncapped(files) ==
    SelectSeq(group_files_by_directory(files), LAMBDA d : d # << >>)

\* The directories generate_folder_readmes makes a text-generation call for,
\* in order: the first five keys, '.' skipped.
documented_directories(files) ==
    SelectSeq(Take(group_files_by_directory(files), MaxDirectories), LAMBDA d : d # << >>)

\* 'main' in basename or 'index' in basename or 'app' in basename: the words
\* of the modelled names that contain one of the three.
HintWords == {"main", "index", "app"}
HasHint(f) == \E i \in DOMAIN basename(f.path) : basename(f.path)[i] \in HintWords

\* The score of _select_key_files in thousandths: 10 for a hint, and
\* min(size / 1000, 5).
Score(f) == (IF HasHint(f) THEN 10000 ELSE 0) + (IF f.size < 5000 THEN f.size ELSE 5000)

\* list.sort(reverse=True, key=score) is stable: a file goes after the files
\* with a higher score and before those already placed with the same score.
RECURSIVE select_key_files(_)
select_key_files(files) ==
    IF files = << >> THEN << >>
    ELSE LET rest == select_key_files(Tail(files))
             n == Cardinality({i \in DOMAIN rest : Score(rest[i]) > Score(Head(files))})
         IN SubSeq(rest, 1, n) \o << Head(files) >> \o SubSeq(rest, n + 1, Len(rest))

\* FileAnalyzer.get_file_content: a message in brackets for a file over
\* max_size or one whose read raises, else the content.
max_size == 1000000
get_file_content(f) ==
    IF f.content = Unreadable THEN << "[", "Error reading file" >>
    ELSE IF f.size > max_size THEN << "[", "File too large" >>
    ELSE f.content

\* The files generate_function_docs makes a text-generation call for, in
\* order: the first three key files whose content does not start with '['.
documented_files(files) ==
    SelectSeq(Take(select_key_files(files), MaxKeyFiles),
              LAMBDA f : ~startswith(get_file_content(f), << "[" >>))

\* The directories and the files a run without failure documents.
RepoDirs(r) == Range(documented_directories(code_files(r)))
KeyFiles(r) == {f.path : f \in Range(documented_files(code_files(r)))}

-----------------------------------------------------------------------------
\* Locators are sequences of tokens too: a word is a run of characters of
\* [\w-] as long as it can be, and every other character is a token of its own.

NonWord == {".", "/", ":", "@", " ", "?"}
IsWord(t) == t \notin NonWord

HttpsGithub == << "https", ":", "/", "/", "github", ".", "com", "/" >>
GitAtGithub == << "git", "@", "github", ".", "com", ":" >>
FtpUrl == << "ftp", ":", "/", "/", "example", ".", "com", "/", "x" >>

\* Locators a client may submit.
Locators ==
    {HttpsGithub \o << "o", "/", "r" >>,
     HttpsGithub \o << "o", "/", "r", "/" >>,
     HttpsGithub \o << "o", "/", "r", ".", "git" >>,
     GitAtGithub \o << "o", "/", "r", ".", "git" >>,
     FtpUrl,
     HttpsGithub \o << "only-owner" >>,
     << "http", ":", "/", "/", "github", ".", "com", "/", "o", "/", "r" >>,
     GitAtGithub \o << "o", "/", "r" >>,
     HttpsGithub \o << "o", "/", "r", "/", "tree" >>,
     HttpsGithub \o << "o", "/", "r", "?", "x" >>,
     << " " >> \o HttpsGithub \o << "o", "/", "r" >>,
     GitAtGithub \o << "o", "/", "r", ".", "git", " " >>}

\* str.strip on a string whose only whitespace is " ".
RECURSIVE strip(_)
strip(u) ==
    IF u # << >> /\ Head(u) = " " THEN strip(Tail(u))
    ELSE IF u # << >> /\ u[Len(u)] = " " THEN strip(SubSeq(u, 1, Len(u) - 1))
    ELSE u

\* [\w.-]+ matches the whole of s
IsRepoName(s) == s # << >> /\ \A i \in DOMAIN s : IsWord(s[i]) \/ s[i] = "."

\* re.match(r"^https://github\.com/[\w-]+/[\w.-]+/?$", s)
MatchHttps(s) ==
    /\ startswith(s, HttpsGithub)
    /\ Len(s) >= Len(HttpsGithub) + 3
    /\ IsWord(s[Len(HttpsGithub) + 1])
    /\ s[Len(HttpsGithub) + 2] = "/"
    /\ LET rest == SubSeq(s, Len(HttpsGithub) + 3, Len(s))
       IN \/ IsRepoName(rest)
          \/ rest[Len(rest)] = "/" /\ IsRepoName(SubSeq(rest, 1, Len(rest) - 1))

\* re.match(r"^git@github\.com:[\w-]+/[\w.-]+\.git$", s)
MatchSsh(s) ==
    /\ startswith(s, GitAtGithub)
    /\ Len(s) >= Len(GitAtGithub) + 5
    /\ IsWord(s[Len(GitAtGithub) + 1])
    /\ s[Len(GitAtGithub) + 2] = "/"
    /\ SubSeq(s, Len(s) - 1, Len(s)) = << ".", "git" >>
    /\ IsRepoName(SubSeq(s, Len(GitAtGithub) + 3, Len(s) - 2))

-----------------------------------------------------------------------------

VARIABLES
    storage_mode,   \* settings.storage_mode, fixed at process start
    submitted,      \* submitted[j]: Submit returned job id j
    taskState,      \* result backend: celery state of task j
    taskInfo,       \* result backend: meta / return value / exception of task j
    pc,             \* position of the run of job j
    repo_path,      \* local of analyze_and_document: TRUE once clone returned a path
    docs_dir,       \* local of analyze_and_document: TRUE once line 63 assigned it
    st,             \* the AgentState threaded through the stages (result of agent.run)
    ret,            \* the value the task function is about to return
    repoDir,        \* file system: the working copy directory of job j exists
    docsExists,     \* file system: /tmp/docs_{job_id} exists
    docsFiles,      \* file system: files under /tmp/docs_{job_id}
    ns,             \* storage backend: files under the namespace of job j
    hist,           \* history: job states observable for j, in order, without repeats
    stagesRun,      \* history: stages started in the pipeline run of j, in order
    failed,         \* history of the pipeline run: the stages that recorded an error
    stage1_error,   \* history: the message stage 1 recorded, "" if it did not fail
    faults,         \* history: failures raised outside the stages
    softAt,         \* history: the soft time limit was raised in the "try" block
                    \* (lines 41-124), in the "finally" block, or not ("none")
    killed,         \* history: the hard time limit killed the run
    escaped,        \* history: an exception left analyze_and_document uncaught
    request,        \* the last request a recorded API call handled
    response        \* and the response to it

vars == << storage_mode, submitted, taskState, taskInfo, pc, repo_path, docs_dir, st,
           ret, repoDir, docsExists, docsFiles, ns, hist, stagesRun, failed,
           stage1_error, faults, softAt, killed, escaped, request, response >>

apiVars == << request, response >>
storeVars == << taskState, taskInfo, hist >>
localVars == << repo_path, docs_dir, st, ret >>
fsVars == << repoDir, docsExists, docsFiles, ns >>
histVars == << stagesRun, failed, stage1_error, faults, softAt, killed, escaped >>

-----------------------------------------------------------------------------
\* Values

\* str(e) and the messages built from it are sequences of parts; << >> is "".
NoError == << >>

Info(status, error, url) == [status |-> status, error |-> error, s3_url |-> url]
NoInfo == Info("", NoError, "")

\* A recorded API call: the endpoint, the job id in its path and its argument
\* (a locator or a relative path); the status code and what the body carries.
Request(op, job_id, arg) == [op |-> op, job_id |-> job_id, arg |-> arg]
Response(code, body) == [code |-> code, body |-> body]
NoRequest == Request("", << >>, << >>)
NoResponse == Response(0, << >>)

\* The keys of the analysis dict once analyze_repository has filled it.
AnalysisKeys == {"total_files", "code_files", "directories", "code_file_count",
                 "languages", "frameworks", "file_tree"}

\* agent.run's initial_state (dicts are modelled by their key sets).
InitialState(path) ==
    [repo_path |-> path, repo_name |-> "o_r", analysis |-> {}, main_readme |-> "",
     folder_readmes |-> {}, function_docs |-> {}, setup_guide |-> "",
     status |-> "started", error |-> NoError]

\* Before agent.run and after the task function has exited there is no AgentState.
NoState == [InitialState("") EXCEPT !.status = ""]

\* The exception an outcome of an external call raises.
Cause(out) == IF out = "soft_timeout" THEN "SoftTimeLimitExceeded" ELSE "Error"

\* GitService.validate_github_url: either pattern matches url.strip().
validate_github_url(u) == MatchHttps(strip(u)) \/ MatchSsh(strip(u))

-----------------------------------------------------------------------------
\* The polling endpoints

Ready(j) == taskState[j] \in {"SUCCESS", "FAILURE"}

\* get_job_status: state, meta and (once ready) the result, for any id: the
\* backend reads PENDING for an id it holds nothing for, and the handler
\* answers 200 whatever it reads.
GetState(j) ==
    [code |-> 200, state |-> taskState[j], meta |-> taskInfo[j],
     result |-> IF Ready(j) THEN taskInfo[j] ELSE NoInfo]

\* GetResult, had it returned the stored payload without asking task.ready().
GetResult_ignoresReady(j) ==
    [code |-> 200, status |-> taskInfo[j].status, s3_url |-> taskInfo[j].s3_url,
     error |-> taskInfo[j].error]

\* get_job_result: 202 until ready, then the failed or the returned payload.
GetResult(j) ==
    IF ~Ready(j) THEN [code |-> 202, status |-> "", s3_url |-> "", error |-> NoError]
    ELSE IF taskState[j] = "FAILURE"
         THEN [code |-> 200, status |-> "failed", s3_url |-> "", error |-> taskInfo[j].error]
         ELSE [code |-> 200, status |-> taskInfo[j].status, s3_url |-> taskInfo[j].s3_url,
               error |-> taskInfo[j].error]

\* The job state a client reads off the two endpoints, for any store contents.
JobStateOf(state, info) ==
    IF state \in {"PENDING", "STARTED"} THEN "SUBMITTED"
    ELSE IF state = "FAILURE" THEN "FAILED"
    ELSE IF state = "SUCCESS"
         THEN (IF info.status = "completed" THEN "COMPLETED" ELSE "FAILED")
         ELSE state

JobState(j) == JobStateOf(GetState(j).state, taskInfo[j])

Terminal(j) == JobState(j) \in {"COMPLETED", "FAILED"}

\* Store, had the result backend kept one entry for all tasks.
Store_sharedKey(j, state, info) ==
    /\ taskState' = [k \in Jobs |-> state]
    /\ taskInfo' = [k \in Jobs |-> info]
    /\ hist' = [hist EXCEPT ![j] = Append(@, JobStateOf(state, info))]

\* A write of (state, info) for task j to the result backend, and what a poll
\* right after it observes.
Store(j, state, info) ==
    /\ taskState' = [taskState EXCEPT ![j] = state]
    /\ taskInfo' = [taskInfo EXCEPT ![j] = info]
    /\ hist' = [hist EXCEPT ![j] =
                  IF Len(@) > 0 /\ @[Len(@)] = JobStateOf(state, info) THEN @
                  ELSE Append(@, JobStateOf(state, info))]

\* Outcomes of an external call: the soft time limit is raised at most once.
Outcomes(j, allowed) ==
    IF softAt[j] = "none" THEN allowed
    ELSE allowed \ {"soft_timeout", "soft_timeout_swallowed"}

\* The history of an outcome `out` of the external call made at `where`.
NoteSoft(j, out, where) ==
    softAt' = [softAt EXCEPT ![j] =
                 IF out \in {"soft_timeout", "soft_timeout_swallowed"} THEN where ELSE @]

\* Fail, had the except clause retried the task from its first line instead of
\* returning the failed result.
Fail_retries(j, error) ==
    /\ ret' = ret
    /\ pc' = [pc EXCEPT ![j] = "L43"]

\* Fail, had the except clause logged the error and let the run go on with
\* the analysis.
Fail_resumes(j, error) ==
    /\ ret' = ret
    /\ pc' = [pc EXCEPT ![j] = "L50"]

\* The except clause of analyze_and_document: the failed result, then finally.
Fail(j, error) ==
    /\ ret' = [ret EXCEPT ![j] = Info("failed", error, "")]
    /\ pc' = [pc EXCEPT ![j] = "L135"]

-----------------------------------------------------------------------------
Init ==
    /\ storage_mode \in {"local", "s3"}
    /\ submitted = [j \in Jobs |-> FALSE]
    /\ taskState = [j \in Jobs |-> "PENDING"]
    /\ taskInfo = [j \in Jobs |-> NoInfo]
    /\ pc = [j \in Jobs |-> "idle"]
    /\ repo_path = [j \in Jobs |-> FALSE]
    /\ docs_dir = [j \in Jobs |-> FALSE]
    /\ st = [j \in Jobs |-> NoState]
    /\ ret = [j \in Jobs |-> NoInfo]
    /\ repoDir = [j \in Jobs |-> FALSE]
    /\ docsExists = [j \in Jobs |-> FALSE]
    /\ docsFiles = [j \in Jobs |-> {}]
    /\ ns = [j \in Jobs |-> {}]
    /\ hist = [j \in Jobs |-> << >>]
    /\ stagesRun = [j \in Jobs |-> << >>]
    /\ failed = [j \in Jobs |-> {}]
    /\ stage1_error = [j \in Jobs |-> NoError]
    /\ faults = [j \in Jobs |-> {}]
    /\ softAt = [j \in Jobs |-> "none"]
    /\ killed = [j \in Jobs |-> FALSE]
    /\ escaped = [j \in Jobs |-> FALSE]
    /\ request = NoRequest
    /\ response = NoResponse

\* analyze_request, had the task been enqueued without validating the locator.
analyze_request_unvalidated(j, u) ==
    /\ submitted' = [submitted EXCEPT ![j] = TRUE]
    /\ pc' = [pc EXCEPT ![j] = "queued"]
    /\ hist' = [hist EXCEPT ![j] = << JobStateOf(taskState[j], taskInfo[j]) >>]
    /\ UNCHANGED << storage_mode, taskState, taskInfo, localVars, fsVars, histVars >>

\* POST /api/analyze with locator u, j being the id uuid4 draws if it gets
\* that far: validate, draw the id, enqueue the task under it.
analyze_request(j, u) ==
    IF validate_github_url(u)
    THEN /\ submitted' = [submitted EXCEPT ![j] = TRUE]
         /\ pc' = [pc EXCEPT ![j] = "queued"]
         /\ hist' = [hist EXCEPT ![j] = << JobStateOf(taskState[j], taskInfo[j]) >>]
         /\ UNCHANGED << storage_mode, taskState, taskInfo, localVars, fsVars, histVars >>
    ELSE UNCHANGED << storage_mode, submitted, pc, storeVars, localVars, fsVars, histVars >>

\* A client submits a locator.
Submit(j) ==
    /\ pc[j] = "idle"
    /\ \E u \in Locators : analyze_request(j, u)
    /\ UNCHANGED apiVars

\* A worker takes the task off the queue; task_track_started marks it STARTED.
Pickup(j) ==
    /\ pc[j] = "queued"
    /\ Store(j, "STARTED", NoInfo)
    /\ pc' = [pc EXCEPT ![j] = "L43"]
    /\ UNCHANGED << apiVars, storage_mode, submitted, localVars, fsVars, histVars >>

\* tasks.py line 43.
UpdateCloning(j) ==
    /\ pc[j] = "L43"
    /\ Store(j, "CLONING", Info("Cloning repository...", NoError, ""))
    /\ pc' = [pc EXCEPT ![j] = "L47"]
    /\ UNCHANGED << apiVars, storage_mode, submitted, localVars, fsVars, histVars >>

\* The jobs whose run holds a working copy at the path line 50 may come to: the
\* path is TEMP_DIR/{repo_name}_{os.urandom(4).hex()}, eight hex digits after a
\* name that two locators can share, and nothing looks whether it is taken.
Colliding(j) == {k \in Jobs \ {j} : repo_path[k] /\ repoDir[k]}

\* GitService.clone_repository as called at tasks.py line 47.  `made` says whether
\* the target directory exists when the fetch fails; `rm` is the outcome of the
\* rmtree in the GitCommandError handler, the only exception it handles.  `hit`
\* is the job whose working copy is at the path drawn ("none": the path is
\* free): git refuses to clone into a directory that is not empty, and the
\* handler removes the directory at the path.
Clone(j) ==
    /\ pc[j] = "L47"
    /\ \E out \in Outcomes(j, {"ok", "git_error", "error", "soft_timeout"}),
          made \in BOOLEAN, rm \in {"ok", "error"}, hit \in Colliding(j) \cup {"none"} :
         /\ out = "ok" => made /\ rm = "ok"
         /\ (out \in {"error", "soft_timeout"} \/ ~made) => rm = "ok"
         /\ hit # "none" => out = "git_error" /\ made
         /\ NoteSoft(j, out, "try")
         /\ IF out = "ok"
            THEN /\ repoDir' = [repoDir EXCEPT ![j] = TRUE]
                 /\ repo_path' = [repo_path EXCEPT ![j] = TRUE]
                 /\ pc' = [pc EXCEPT ![j] = "L50"]
                 /\ UNCHANGED << ret, faults >>
            ELSE /\ repoDir' = [k \in Jobs |->
                                  IF k = hit THEN repoDir[k] /\ rm # "ok"
                                  ELSE IF k # j THEN repoDir[k]
                                  ELSE IF hit # "none" THEN repoDir[j]
                                  ELSE IF out = "git_error" /\ rm = "ok" THEN FALSE
                                  ELSE made]
                 /\ Fail(j, IF out = "git_error" /\ rm = "ok"
                            THEN << "Failed to clone repository: ", "GitCommandError" >>
                            ELSE << Cause(out) >>)
                 /\ faults' = [faults EXCEPT ![j] = @ \cup {"acquire"}]
                 /\ UNCHANGED repo_path
    /\ UNCHANGED << apiVars, storage_mode, submitted, storeVars, docs_dir, st, docsExists,
                    docsFiles, ns, stagesRun, failed, stage1_error, killed, escaped >>

\* tasks.py lines 50-54, up to the engine entering its first node: the state
\* write, DocumentationAgent() and agent.run's initial_state.
StartPipeline(j) ==
    /\ pc[j] = "L50"
    /\ Store(j, "ANALYZING", Info("Analyzing codebase...", NoError, ""))
    /\ st' = [st EXCEPT ![j] = InitialState(j)]
    /\ pc' = [pc EXCEPT ![j] = "analyze_repository"]
    /\ UNCHANGED << apiVars, storage_mode, submitted, repo_path, docs_dir, ret, fsVars, histVars >>

-----------------------------------------------------------------------------
\* The five stages, each AgentState -> AgentState.  `out` is the outcome of the
\* stage's external calls: "ok", "error" (one of them raises), "soft_timeout"
\* (the soft time limit is raised where only the stage's own handler catches
\* it) or "soft_timeout_swallowed" (raised inside a helper that catches it).

\* Stage 1.  A timeout raised inside detect_frameworks' try blocks is swallowed
\* by their bare except, and the stage goes on.
analyze_repository(s, out) ==
    IF out \in {"ok", "soft_timeout_swallowed"}
    THEN [s EXCEPT !.analysis = AnalysisKeys, !.status = "analyzed"]
    ELSE [s EXCEPT !.error = << "Analysis failed: ", Cause(out) >>, !.status = "failed"]

\* Stage 2.  analysis['code_files'] raises KeyError on the empty analysis.
generate_main_readme(s, out) ==
    IF "code_files" \notin s.analysis
    THEN [s EXCEPT !.error = << "Main README generation failed: ", "KeyError" >>]
    ELSE IF out = "ok"
    THEN [s EXCEPT !.main_readme = "text", !.status = "main_readme_generated"]
    ELSE [s EXCEPT !.error = << "Main README generation failed: ", Cause(out) >>]

\* generate_folder_readmes, had it stored its result under the key of stage 4.
generate_folder_readmes_wrongKey(s, out) ==
    IF "code_files" \notin s.analysis
    THEN [s EXCEPT !.error = << "Folder README generation failed: ", "KeyError" >>]
    ELSE IF out \in {"ok", "soft_timeout_swallowed"}
    THEN [s EXCEPT !.function_docs = RepoDirs(s.repo_path), !.status = "folder_readmes_generated"]
    ELSE [s EXCEPT !.error = << "Folder README generation failed: ", Cause(out) >>]

\* Stage 3.  get_file_content (via _get_code_snippets) swallows what it raises.
generate_folder_readmes(s, out) ==
    IF "code_files" \notin s.analysis
    THEN [s EXCEPT !.error = << "Folder README generation failed: ", "KeyError" >>]
    ELSE IF out \in {"ok", "soft_timeout_swallowed"}
    THEN [s EXCEPT !.folder_readmes = RepoDirs(s.repo_path), !.status = "folder_readmes_generated"]
    ELSE [s EXCEPT !.error = << "Folder README generation failed: ", Cause(out) >>]

\* Stage 4.  A key file whose read raised is skipped ("[Error reading file").
generate_function_docs(s, out) ==
    IF "code_files" \notin s.analysis
    THEN [s EXCEPT !.error = << "Function documentation failed: ", "KeyError" >>]
    ELSE IF out = "ok"
    THEN [s EXCEPT !.function_docs = KeyFiles(s.repo_path), !.status = "function_docs_generated"]
    ELSE IF out = "soft_timeout_swallowed"
    THEN [s EXCEPT !.function_docs = {}, !.status = "function_docs_generated"]
    ELSE [s EXCEPT !.error = << "Function documentation failed: ", Cause(out) >>]

\* generate_setup_guide, had a stage that succeeds reset the error.
generate_setup_guide_clearsError(s, out) ==
    IF out # "ok"
    THEN [s EXCEPT !.error = << "Setup guide generation failed: ", Cause(out) >>]
    ELSE IF "languages" \notin s.analysis \/ "frameworks" \notin s.analysis
    THEN [s EXCEPT !.error = << "Setup guide generation failed: ", "KeyError" >>]
    ELSE [s EXCEPT !.setup_guide = "text", !.status = "completed", !.error = NoError]

\* Stage 5.  The config and dependency probes run before analysis['languages'].
generate_setup_guide(s, out) ==
    IF out # "ok"
    THEN [s EXCEPT !.error = << "Setup guide generation failed: ", Cause(out) >>]
    ELSE IF "languages" \notin s.analysis \/ "frameworks" \notin s.analysis
    THEN [s EXCEPT !.error = << "Setup guide generation failed: ", "KeyError" >>]
    ELSE [s EXCEPT !.setup_guide = "text", !.status = "completed"]

\* Node, had the workflow an edge to END for a state whose stage recorded an error.
Node_endsOnError(j, k, out, new, next) ==
    /\ st' = [st EXCEPT ![j] = new]
    /\ stagesRun' = [stagesRun EXCEPT ![j] = Append(@, k)]
    /\ failed' = [failed EXCEPT ![j] = IF new.error # st[j].error THEN @ \cup {k} ELSE @]
    /\ stage1_error' = [stage1_error EXCEPT ![j] = IF k = 1 THEN new.error ELSE @]
    /\ NoteSoft(j, out, "try")
    /\ pc' = [pc EXCEPT ![j] = IF new.error # st[j].error THEN "L56" ELSE next]
    /\ UNCHANGED << apiVars, storage_mode, submitted, storeVars, repo_path, docs_dir, ret,
                    fsVars, faults, killed, escaped >>

\* Node, had the engine called a stage again when it recorded an error.
Node_retries(j, k, out, new, next) ==
    /\ st' = [st EXCEPT ![j] = new]
    /\ stagesRun' = [stagesRun EXCEPT ![j] = Append(@, k)]
    /\ failed' = [failed EXCEPT ![j] = IF new.error # st[j].error THEN @ \cup {k} ELSE @]
    /\ stage1_error' = [stage1_error EXCEPT ![j] = IF k = 1 THEN new.error ELSE @]
    /\ NoteSoft(j, out, "try")
    /\ pc' = [pc EXCEPT ![j] = IF new.error # st[j].error THEN @ ELSE next]
    /\ UNCHANGED << apiVars, storage_mode, submitted, storeVars, repo_path, docs_dir, ret,
                    fsVars, faults, killed, escaped >>

\* One node of the compiled workflow: the engine calls stage k with the state,
\* keeps what it returns and follows the single edge to `next`.
Node(j, k, out, new, next) ==
    /\ st' = [st EXCEPT ![j] = new]
    /\ stagesRun' = [stagesRun EXCEPT ![j] = Append(@, k)]
    /\ failed' = [failed EXCEPT ![j] =
                    IF new.error # st[j].error
                    THEN @ \cup {k} ELSE @]
    /\ stage1_error' = [stage1_error EXCEPT ![j] = IF k = 1 THEN new.error ELSE @]
    /\ NoteSoft(j, out, "try")
    /\ pc' = [pc EXCEPT ![j] = next]
    /\ UNCHANGED << apiVars, storage_mode, submitted, storeVars, repo_path, docs_dir, ret,
                    fsVars, faults, killed, escaped >>

RunAnalyzeRepository(j) ==
    /\ pc[j] = "analyze_repository"
    /\ \E out \in Outcomes(j, {"ok", "error", "soft_timeout", "soft_timeout_swallowed"}) :
         Node(j, 1, out, analyze_repository(st[j], out), "generate_main_readme")

RunGenerateMainReadme(j) ==
    /\ pc[j] = "generate_main_readme"
    /\ \E out \in Outcomes(j, IF st[j].analysis = {} THEN {"ok"}
                              ELSE {"ok", "error", "soft_timeout"}) :
         Node(j, 2, out, generate_main_readme(st[j], out), "generate_folder_readmes")

RunGenerateFolderReadmes(j) ==
    /\ pc[j] = "generate_folder_readmes"
    /\ \E out \in Outcomes(j, IF st[j].analysis = {} THEN {"ok"}
                              ELSE {"ok", "error", "soft_timeout", "soft_timeout_swallowed"}) :
         Node(j, 3, out, generate_folder_readmes(st[j], out), "generate_function_docs")

RunGenerateFunctionDocs(j) ==
    /\ pc[j] = "generate_function_docs"
    /\ \E out \in Outcomes(j, IF st[j].analysis = {} THEN {"ok"}
                              ELSE {"ok", "error", "soft_timeout", "soft_timeout_swallowed"}) :
         Node(j, 4, out, generate_function_docs(st[j], out), "generate_setup_guide")

RunGenerateSetupGuide(j) ==
    /\ pc[j] = "generate_setup_guide"
    /\ \E out \in Outcomes(j, {"ok", "error", "soft_timeout"}) :
         Node(j, 5, out, generate_setup_guide(st[j], out), "L56")

-----------------------------------------------------------------------------
\* The orchestrator after the pipeline

\* Inspect, had line 56 not looked at the error the pipeline returned.
Inspect_ignoresError(j) ==
    /\ pc[j] = "L56"
    /\ Store(j, "GENERATING", Info("Generating documentation...", NoError, ""))
    /\ pc' = [pc EXCEPT ![j] = "L63"]
    /\ UNCHANGED << apiVars, storage_mode, submitted, localVars, fsVars, histVars >>

\* tasks.py lines 56-60: a recorded stage error is raised (and caught at line
\* 126), and nothing reads the AgentState again; otherwise the job is GENERATING.
Inspect(j) ==
    /\ pc[j] = "L56"
    /\ IF st[j].error # NoError
       THEN /\ Fail(j, st[j].error)
            /\ st' = [st EXCEPT ![j] = NoState]
            /\ failed' = [failed EXCEPT ![j] = {}]
            /\ faults' = [faults EXCEPT ![j] = @ \cup {"stage"}]
            /\ UNCHANGED storeVars
       ELSE /\ Store(j, "GENERATING", Info("Generating documentation...", NoError, ""))
            /\ pc' = [pc EXCEPT ![j] = "L63"]
            /\ UNCHANGED << ret, st, failed, faults >>
    /\ UNCHANGED << apiVars, storage_mode, submitted, repo_path, docs_dir, fsVars, stagesRun,
                    stage1_error, softAt, killed, escaped >>

\* The writes of lines 66-89 for an AgentState: the path written, relative to
\* docs_dir, the narrative written there and the key it is stored under.
Write(path, kind, key) == [path |-> path, kind |-> kind, key |-> key]

BundleWrites(s) ==
    {Write(README, "main_readme", << >>), Write(SETUP, "setup_guide", << >>)}
        \cup {Write(join(d, README), "folder_readme", d) : d \in s.folder_readmes}
        \cup {Write(join(<< "detailed_docs" >>, safe_name(f)), "function_doc", f) :
                 f \in s.function_docs}

\* The files lines 66-89 leave for an AgentState, relative to docs_dir.
BundleFiles(s) == {w.path : w \in BundleWrites(s)}

\* UpdateUploading, had the state write of line 93 been left out.
UpdateUploading_missing(j) == UNCHANGED storeVars

\* tasks.py lines 92-93.
UpdateUploading(j) ==
    Store(j, "UPLOADING",
          Info(IF storage_mode = "local" THEN "Saving to local storage..."
               ELSE "Saving to S3...", NoError, ""))

\* tasks.py lines 63-93: docs_dir is assigned, the bundle is written, the job
\* is UPLOADING.  A write that raises leaves what was written before it.
WriteBundle(j) ==
    /\ pc[j] = "L63"
    /\ docs_dir' = [docs_dir EXCEPT ![j] = TRUE]
    /\ \E out \in Outcomes(j, {"ok", "error", "soft_timeout"}), made \in BOOLEAN :
         /\ out = "ok" => made
         /\ NoteSoft(j, out, "try")
         /\ docsExists' = [docsExists EXCEPT ![j] = made]
         /\ IF out = "ok"
            THEN /\ docsFiles' = [docsFiles EXCEPT ![j] = BundleFiles(st[j])]
                 /\ UpdateUploading(j)
                 /\ pc' = [pc EXCEPT ![j] = "L96"]
                 /\ UNCHANGED << ret, faults >>
            ELSE /\ docsFiles' = [docsFiles EXCEPT ![j] =
                                    IF made THEN {README} ELSE {}]
                 /\ Fail(j, << Cause(out) >>)
                 /\ faults' = [faults EXCEPT ![j] = @ \cup {"bundle"}]
                 /\ UNCHANGED storeVars
    /\ UNCHANGED << apiVars, storage_mode, submitted, repo_path, st, repoDir, ns, stagesRun,
                    failed, stage1_error, killed, escaped >>

\* The access URL upload_documentation returns: it names the job's README.md.
AccessUrl(j) == j

\* str of what upload_documentation / upload_json_metadata raise: the local
\* backend wraps every Exception, the S3 backend only botocore's ClientError.
StorageError(mode, prefix, out) ==
    IF mode = "local" \/ out = "error" THEN << prefix, Cause(out) >> ELSE << Cause(out) >>

\* tasks.py line 63: docs_dir = f"/tmp/docs_{job_id}"
DocsDir(job_id) == << "/", "tmp", "/", "docs_" >> \o job_id

\* stored_path, had the S3 key been built from the file's name instead of its
\* path relative to docs_dir.
stored_path_flat(mode, job_id, f) ==
    IF mode = "local" THEN relpath(join(join(base_dir, job_id), f), join(base_dir, job_id))
    ELSE basename(f)

\* Where a backend stores the file f of docs_dir, relative to the namespace of
\* the job: copytree keeps the path below docs_dir under base_dir/job_id; the S3
\* key is job_id, "/" and relpath(local_path, docs_dir).
stored_path(mode, job_id, f) ==
    IF mode = "local"
    THEN relpath(join(join(base_dir, job_id), f), join(base_dir, job_id))
    ELSE LET s3_key == job_id \o << "/" >> \o relpath(join(DocsDir(job_id), f), DocsDir(job_id))
         IN SubSeq(s3_key, Len(job_id) + 2, Len(s3_key))

\* What the namespace of a job holds after upload_documentation has stored
\* `files` over `old` and returned: the local backend removes the job directory
\* and copies the tree, the S3 backend puts one object per file.
upload_documentation(mode, job_id, old, files) ==
    IF mode = "local" THEN {stored_path(mode, job_id, f) : f \in files}
    ELSE old \cup {stored_path(mode, job_id, f) : f \in files}

\* upload_json_metadata: one more file (object) under the same namespace.
upload_json_metadata(mode, old) == old \cup {METADATA}

\* The files of docs_dir the running upload_documentation has stored so far.  A
\* job id is fresh, so its namespace holds nothing else while its run stores.
Stored(j) == ns[j] \cap docsFiles[j]

\* The files of docs_dir the running upload_documentation has yet to store.
Remaining(j) ==
    {f \in docsFiles[j] : stored_path(storage_mode, IdOf(j), f) \notin ns[j]}

\* The file copytree / os.walk comes to next: top-down, a directory's files
\* before its subdirectories'.
NextFile(S) == CHOOSE f \in S : \A g \in S : Len(split(f)) <= Len(split(g))

\* tasks.py lines 96-101, one step per file stored and one for the return of
\* the access URL.  The files become readable one by one, and neither backend
\* rolls back those stored before a failure.
Upload(j) ==
    /\ pc[j] = "L96"
    /\ \E out \in Outcomes(j, {"ok", "error", "soft_timeout"}) :
         /\ NoteSoft(j, out, "try")
         /\ IF out = "ok"
            THEN /\ IF Remaining(j) = {}
                    THEN /\ ns' = [ns EXCEPT ![j] =
                                     upload_documentation(storage_mode, IdOf(j), @,
                                                          docsFiles[j])]
                         /\ pc' = [pc EXCEPT ![j] = "L104"]
                    ELSE /\ ns' = [ns EXCEPT ![j] =
                                     (IF storage_mode = "local" THEN Stored(j) ELSE @)
                                         \cup {stored_path(storage_mode, IdOf(j),
                                                           NextFile(Remaining(j)))}]
                         /\ pc' = pc
                 /\ UNCHANGED << ret, faults >>
            ELSE /\ ns' = ns
                 /\ Fail(j, StorageError(storage_mode,
                              IF storage_mode = "local"
                              THEN "Failed to store documentation locally: "
                              ELSE "Failed to upload documentation to S3: ", out))
                 /\ faults' = [faults EXCEPT ![j] = @ \cup {"store"}]
    /\ UNCHANGED << apiVars, storage_mode, submitted, storeVars, repo_path, docs_dir, st, repoDir,
                    docsExists, docsFiles, stagesRun, failed, stage1_error, killed, escaped >>

\* ReturnCompleted, had the result been recorded in the backend at the return
\* statement, before the finally clause has run.
ReturnCompleted_storesEarly(j) ==
    /\ ret' = [ret EXCEPT ![j] = Info("completed", NoError, AccessUrl(j))]
    /\ Store(j, "SUCCESS", Info("completed", NoError, AccessUrl(j)))

\* tasks.py lines 118-124: the completed result, pending while finally runs.
ReturnCompleted(j) ==
    /\ ret' = [ret EXCEPT ![j] = Info("completed", NoError, AccessUrl(j))]
    /\ UNCHANGED storeVars

\* tasks.py lines 104-124: the metadata record is written and the completed
\* result is returned (to the finally clause).
UploadMetadata(j) ==
    /\ pc[j] = "L104"
    /\ \E out \in Outcomes(j, {"ok", "error", "soft_timeout"}) :
         /\ NoteSoft(j, out, "try")
         /\ IF out = "ok"
            THEN /\ ns' = [ns EXCEPT ![j] = upload_json_metadata(storage_mode, @)]
                 /\ ReturnCompleted(j)
                 /\ pc' = [pc EXCEPT ![j] = "L135"]
                 /\ UNCHANGED faults
            ELSE /\ Fail(j, StorageError(storage_mode, "Failed to upload metadata: ", out))
                 /\ faults' = [faults EXCEPT ![j] = @ \cup {"metadata"}]
                 /\ UNCHANGED << ns, storeVars >>
    /\ UNCHANGED << apiVars, storage_mode, submitted, repo_path, docs_dir, st, repoDir,
                    docsExists, docsFiles, stagesRun, failed, stage1_error, killed, escaped >>

\* The task function is left: its locals are gone, the pipeline run's too.
DropLocals(j) ==
    /\ failed' = [failed EXCEPT ![j] = {}]
    /\ repo_path' = [repo_path EXCEPT ![j] = FALSE]
    /\ docs_dir' = [docs_dir EXCEPT ![j] = FALSE]
    /\ st' = [st EXCEPT ![j] = NoState]
    /\ ret' = [ret EXCEPT ![j] = NoInfo]

\* The outcomes of the rmtree a cleanup step makes, "skip" when its guard
\* (the local is set and the directory exists) is false.
RmOutcomes(j, guard) ==
    IF guard THEN Outcomes(j, {"ok", "error", "soft_timeout"}) ELSE {"skip"}

\* cleanup_repository, had it called rmtree without looking for the directory
\* and without the try around it.
cleanup_repository_unguarded(exists, out) ==
    [exists |-> exists /\ out # "ok", raised |-> ~exists \/ out # "ok"]

\* GitService.cleanup_repository on a path whose directory `exists` or not, `out`
\* being the outcome of the rmtree it makes if it does: whether the directory
\* is there afterwards, and whether the call raised.
cleanup_repository(exists, out) ==
    IF ~exists THEN [exists |-> FALSE, raised |-> FALSE]
    ELSE IF out = "ok" THEN [exists |-> FALSE, raised |-> FALSE]
    ELSE [exists |-> TRUE, raised |-> FALSE]

\* tasks.py lines 133-138 and the exit of the task function.  cleanup_repository
\* swallows whatever its rmtree raises (the soft time limit included).  The
\* rmtree of docs_dir is not guarded: what it raises replaces the pending return
\* value and leaves the function, and celery stores FAILURE with it; otherwise
\* celery stores SUCCESS with the returned dict.
Finally(j) ==
    /\ pc[j] = "L135"
    /\ \E oR \in RmOutcomes(j, repo_path[j] /\ repoDir[j]),
          oD \in RmOutcomes(j, docs_dir[j] /\ docsExists[j]) :
         /\ ~(oR = "soft_timeout" /\ oD = "soft_timeout")
         /\ softAt' = [softAt EXCEPT ![j] =
                         IF "soft_timeout" \in {oR, oD} THEN "finally" ELSE @]
         /\ repoDir' = [repoDir EXCEPT ![j] =
                          IF repo_path[j] THEN cleanup_repository(@, oR).exists ELSE @]
         /\ docsExists' = [docsExists EXCEPT ![j] = IF oD = "ok" THEN FALSE ELSE @]
         /\ docsFiles' = [docsFiles EXCEPT ![j] = IF oD = "ok" THEN {} ELSE @]
         /\ faults' = [faults EXCEPT ![j] =
                         @ \cup (IF oR = "error" THEN {"release_repo"} ELSE {})
                           \cup (IF oD \in {"error", "soft_timeout"}
                                 THEN {"release_docs"} ELSE {})]
         /\ escaped' = [escaped EXCEPT ![j] = oD \in {"error", "soft_timeout"}]
         /\ IF oD \in {"error", "soft_timeout"}
            THEN Store(j, "FAILURE", Info("", << Cause(oD) >>, ""))
            ELSE Store(j, "SUCCESS", ret[j])
    /\ DropLocals(j)
    /\ pc' = [pc EXCEPT ![j] = "done"]
    /\ UNCHANGED << apiVars, storage_mode, submitted, ns, stagesRun, stage1_error, killed >>

\* task_time_limit: the pool kills the worker process of a run that is still
\* going after the hard limit (which comes after the soft one) and marks the
\* task failed; nothing of the run executes any more.
HardKill(j) ==
    /\ pc[j] \notin {"idle", "queued", "done"}
    /\ softAt[j] # "none"
    /\ Store(j, "FAILURE", Info("", << "TimeLimitExceeded" >>, ""))
    /\ killed' = [killed EXCEPT ![j] = TRUE]
    /\ DropLocals(j)
    /\ pc' = [pc EXCEPT ![j] = "done"]
    /\ UNCHANGED << apiVars, storage_mode, submitted, fsVars, stagesRun, stage1_error, faults,
                    softAt, escaped >>

-----------------------------------------------------------------------------
\* What the worker does for job j.
Run(j) ==
    \/ Pickup(j)
    \/ UpdateCloning(j)
    \/ Clone(j)
    \/ StartPipeline(j)
    \/ RunAnalyzeRepository(j)
    \/ RunGenerateMainReadme(j)
    \/ RunGenerateFolderReadmes(j)
    \/ RunGenerateFunctionDocs(j)
    \/ RunGenerateSetupGuide(j)
    \/ Inspect(j)
    \/ WriteBundle(j)
    \/ Upload(j)
    \/ UploadMetadata(j)
    \/ Finally(j)
    \/ HardKill(j)

Next == \E j \in Jobs : Submit(j) \/ Run(j)

Spec == Init /\ [][Next]_vars

\* The worker pool takes every queued task and runs it to the end of the task
\* function or to the hard time limit.
LiveSpec == Spec /\ \A j \in Jobs : WF_vars(Run(j))

-----------------------------------------------------------------------------
\* The endpoints as recorded calls against a store that earlier runs have
\* filled (ApiSpec): submission, the file server of the local backend, a store
\* under an id whose namespace is already there, and the release of a working
\* copy.

\* Files on the host outside the namespaces of the jobs: /etc/passwd, and a
\* README.md in a directory of base_dir whose name, "j1x", starts with an id.
OtherFiles ==
    {<< "/", "etc", "/", "passwd" >>,
     join(join(base_dir, << "j", "1", "x" >>), README)}

\* The regular files of the host, by absolute path.
Files ==
    UNION {{join(join(base_dir, IdOf(j)), f) : f \in ns[j]} : j \in Jobs} \cup OtherFiles

\* The directory with components cs exists: the root, or an ancestor of a file.
IsDir(cs) ==
    cs = << >> \/ \E f \in Files : startswith(f, unsplit(cs) \o << "/" >>)

\* Path resolution as the kernel does it for os.path.exists and open: component
\* by component from directory `cur`, every step but the last into a directory
\* that exists.  The components reached, or << << "ENOENT" >> >>.
RECURSIVE resolve(_, _)
resolve(cur, rest) ==
    IF rest = << >> THEN cur
    ELSE IF Head(rest) \in {<< >>, << "." >>} THEN resolve(cur, Tail(rest))
    ELSE IF Head(rest) = << ".", "." >>
    THEN resolve(IF cur = << >> THEN cur ELSE SubSeq(cur, 1, Len(cur) - 1), Tail(rest))
    ELSE IF Tail(rest) = << >>
    THEN (IF IsDir(Append(cur, Head(rest))) \/ unsplit(Append(cur, Head(rest))) \in Files
          THEN Append(cur, Head(rest)) ELSE << << "ENOENT" >> >>)
    ELSE IF IsDir(Append(cur, Head(rest))) THEN resolve(Append(cur, Head(rest)), Tail(rest))
    ELSE << << "ENOENT" >> >>

\* os.path.exists
exists(p) == resolve(<< >>, split(p)) # << << "ENOENT" >> >>

\* GET /api/docs/{job_id}/{file_path}: 400 unless the backend is local, 403 when
\* the prefix check fails, 404 when nothing is at the path, else FileResponse:
\* 200 with the bytes of the file the path resolves to (500 for a directory).
serve_documentation(job_id, file_path) ==
    IF storage_mode # "local" THEN Response(400, << >>)
    ELSE LET doc_path == join(base_dir, job_id)
             full_path == join(doc_path, file_path)
         IN IF ~startswith(abspath(full_path), abspath(doc_path)) THEN Response(403, << >>)
            ELSE IF ~exists(full_path) THEN Response(404, << >>)
            ELSE IF unsplit(resolve(<< >>, split(full_path))) \in Files
            THEN Response(200, unsplit(resolve(<< >>, split(full_path))))
            ELSE Response(500, << >>)

\* The AgentStates a pipeline run without a stage error returns for the
\* repository of job j (a file whose read was cut short is left out).
FinalStates(j) ==
    {generate_setup_guide(
        generate_function_docs(
            generate_folder_readmes(
                generate_main_readme(analyze_repository(InitialState(j), "ok"), "ok"),
                "ok"), o4), "ok") : o4 \in {"ok", "soft_timeout_swallowed"}}

\* The bundles a run for the repository of job j assembles.
Bundles(j) == {BundleFiles(s) : s \in FinalStates(j)}

\* Job ids and relative paths a client asks the file server for.
RequestPaths ==
    {README,
     << "missing", ".", "md" >>,
     << "a", "/", ".", ".", "/" >> \o README,
     << "/", "etc", "/", "passwd" >>,
     << ".", ".", "/", ".", ".", "/", "etc", "/", "passwd" >>,
     << ".", ".", "/", ".", ".", "/", ".", ".", "/", "etc", "/", "passwd" >>,
     << ".", ".", "/", "j", "2", "/" >> \o README,
     << ".", ".", "/", "j", "1", "x", "/" >> \o README}

\* No run is going; every namespace is empty or holds what an earlier run under
\* the same id stored; every bundle directory holds an assembled bundle; the
\* working copy of a job is there or not.
ApiInit ==
    /\ storage_mode \in {"local", "s3"}
    /\ submitted = [j \in Jobs |-> FALSE]
    /\ taskState = [j \in Jobs |-> "PENDING"]
    /\ taskInfo = [j \in Jobs |-> NoInfo]
    /\ pc = [j \in Jobs |-> "idle"]
    /\ repo_path = [j \in Jobs |-> FALSE]
    /\ docs_dir = [j \in Jobs |-> TRUE]
    /\ st = [j \in Jobs |-> NoState]
    /\ ret = [j \in Jobs |-> NoInfo]
    /\ repoDir \in [Jobs -> BOOLEAN]
    /\ docsExists = [j \in Jobs |-> TRUE]
    /\ docsFiles \in [Jobs -> UNION {Bundles(j) : j \in Jobs}]
    /\ \A j \in Jobs : docsFiles[j] \in Bundles(j)
    /\ ns \in [Jobs -> {{}} \cup UNION {{upload_json_metadata(storage_mode, B) : B \in Bundles(j)} : j \in Jobs}]
    /\ \A j \in Jobs : ns[j] = {} \/ ns[j] \ {METADATA} \in Bundles(j)
    /\ hist = [j \in Jobs |-> << >>]
    /\ stagesRun = [j \in Jobs |-> << >>]
    /\ failed = [j \in Jobs |-> {}]
    /\ stage1_error = [j \in Jobs |-> NoError]
    /\ faults = [j \in Jobs |-> {}]
    /\ softAt = [j \in Jobs |-> "none"]
    /\ killed = [j \in Jobs |-> FALSE]
    /\ escaped = [j \in Jobs |-> FALSE]
    /\ request = NoRequest
    /\ response = NoResponse

\* A client's POST /api/analyze and the response it gets.
PostAnalyze(j) ==
    /\ pc[j] = "idle"
    /\ \E u \in Locators :
         /\ analyze_request(j, u)
         /\ request' = Request("analyze", << >>, u)
         /\ response' = IF pc'[j] = "queued" THEN Response(200, IdOf(j))
                        ELSE Response(400, << >>)

\* A client's GET /api/docs/{job_id}/{file_path}.
ServeDocumentation ==
    \E j \in Jobs, file_path \in RequestPaths :
        /\ request' = Request("serve", IdOf(j), file_path)
        /\ response' = serve_documentation(IdOf(j), file_path)
        /\ UNCHANGED << storage_mode, submitted, pc, storeVars, localVars, fsVars, histVars >>

\* tasks.py lines 96-116 run to the end for an id whose namespace may hold an
\* earlier bundle: upload_documentation, then upload_json_metadata.
StoreAgain(j) ==
    /\ pc[j] = "idle"
    /\ ns' = [ns EXCEPT ![j] =
                upload_json_metadata(storage_mode,
                    upload_documentation(storage_mode, IdOf(j), @, docsFiles[j]))]
    /\ request' = Request("store", IdOf(j), << >>)
    /\ response' = Response(200, join(IdOf(j), README))
    /\ UNCHANGED << storage_mode, submitted, pc, storeVars, localVars, repoDir,
                    docsExists, docsFiles, histVars >>

\* GitService.cleanup_repository called on the path of the working copy of j;
\* the request records the outcome of the rmtree, had the call to make one,
\* and the response is 200 when the call returned, 500 when it raised.
Release(j) ==
    /\ pc[j] = "idle"
    /\ \E out \in {"ok", "error"} :
         LET r == cleanup_repository(repoDir[j], out)
         IN /\ repoDir' = [repoDir EXCEPT ![j] = r.exists]
            /\ request' = Request("release", IdOf(j), << out >>)
            /\ response' = Response(IF r.raised THEN 500 ELSE 200, << >>)
    /\ UNCHANGED << storage_mode, submitted, pc, storeVars, localVars, docsExists,
                    docsFiles, ns, histVars >>

ApiNext ==
    \/ \E j \in Jobs : PostAnalyze(j)
    \/ ServeDocumentation
    \/ \E j \in Jobs : StoreAgain(j)
    \/ \E j \in Jobs : Release(j)

ApiSpec == ApiInit /\ [][ApiNext]_vars

-----------------------------------------------------------------------------
\* Stages 3 and 4 and the bundle write of one run (job j1) over the
\* repositories a walk can list: the request holds analysis['code_files'] as
\* far as the walk has come, the response the text-generation calls of stages
\* 3 and 4 in order.

\* The files of the repositories: a small entry point at the root, two large
\* entry points with the same score, a file over max_size and a readable one
\* with the same score, a file whose text starts with "[", and a file whose
\* read raises.
Pool ==
    {File(<< "main", ".", "py" >>, 200, Text),
     File(<< "a", "/", "app", ".", "py" >>, 9000, Text),
     File(<< "b", "/", "big", ".", "py" >>, 2000000, Text),
     File(<< "c", "/", "util", ".", "py" >>, 7000, Text),
     File(<< "d", "/", "index", ".", "py" >>, 6000, Text),
     File(<< "e", "/", "conf", ".", "toml" >>, 100, BracketText),
     File(<< "f", "/", "x", ".", "py" >>, 500, Unreadable)}

\* A text-generation call (llm.invoke) of stage k about a directory or a file.
Call(k, about) == [stage |-> k, about |-> about]

SelectInit ==
    /\ storage_mode = "local"
    /\ submitted = [j \in Jobs |-> j = "j1"]
    /\ taskState = [j \in Jobs |-> IF j = "j1" THEN "ANALYZING" ELSE "PENDING"]
    /\ taskInfo = [j \in Jobs |-> NoInfo]
    /\ pc = [j \in Jobs |-> IF j = "j1" THEN "analyze_repository" ELSE "idle"]
    /\ repo_path = [j \in Jobs |-> j = "j1"]
    /\ docs_dir = [j \in Jobs |-> FALSE]
    /\ st = [j \in Jobs |-> IF j = "j1" THEN InitialState("j1") ELSE NoState]
    /\ ret = [j \in Jobs |-> NoInfo]
    /\ repoDir = [j \in Jobs |-> j = "j1"]
    /\ docsExists = [j \in Jobs |-> FALSE]
    /\ docsFiles = [j \in Jobs |-> {}]
    /\ ns = [j \in Jobs |-> {}]
    /\ hist = [j \in Jobs |-> << >>]
    /\ stagesRun = [j \in Jobs |-> << >>]
    /\ failed = [j \in Jobs |-> {}]
    /\ stage1_error = [j \in Jobs |-> NoError]
    /\ faults = [j \in Jobs |-> {}]
    /\ softAt = [j \in Jobs |-> "none"]
    /\ killed = [j \in Jobs |-> FALSE]
    /\ escaped = [j \in Jobs |-> FALSE]
    /\ request = Request("walk", IdOf("j1"), << >>)
    /\ response = NoResponse

\* file_analyzer.py lines 59-79: os.walk comes to another code file.  The walk
\* is top-down: the files at the root are listed before those below it.
Discover(f) ==
    /\ pc["j1"] = "analyze_repository"
    /\ f \notin Range(request.arg)
    /\ dirname(f.path) = << >> => \A g \in Range(request.arg) : dirname(g.path) = << >>
    /\ request' = [request EXCEPT !.arg = Append(@, f)]
    /\ UNCHANGED << response, storage_mode, submitted, pc, storeVars, localVars, fsVars,
                    histVars >>

\* The walk ends; stages 1 and 2 succeed.
Analyzed ==
    /\ pc["j1"] = "analyze_repository"
    /\ st' = [st EXCEPT !["j1"] = generate_main_readme(analyze_repository(@, "ok"), "ok")]
    /\ stagesRun' = [stagesRun EXCEPT !["j1"] = << 1, 2 >>]
    /\ pc' = [pc EXCEPT !["j1"] = "generate_folder_readmes"]
    /\ UNCHANGED << apiVars, storage_mode, submitted, storeVars, repo_path, docs_dir, ret,
                    fsVars, failed, stage1_error, faults, softAt, killed, escaped >>

\* agent.py lines 130-167 on the listing: one call per documented directory,
\* in order; the call numbered failAt raises (0: none does), which ends the
\* loop and leaves folder_readmes as it was.
FolderReadmes ==
    /\ pc["j1"] = "generate_folder_readmes"
    /\ LET directories == documented_directories(request.arg)
       IN \E failAt \in 0..Len(directories) :
            /\ response' = [response EXCEPT !.body = @ \o
                               [i \in 1..(IF failAt = 0 THEN Len(directories) ELSE failAt)
                                  |-> Call(3, directories[i])]]
            /\ st' = [st EXCEPT !["j1"] =
                        IF failAt = 0
                        THEN [@ EXCEPT !.folder_readmes = Range(directories),
                                       !.status = "folder_readmes_generated"]
                        ELSE [@ EXCEPT !.error =
                                  << "Folder README generation failed: ", "Error" >>]]
            /\ failed' = [failed EXCEPT !["j1"] = IF failAt = 0 THEN @ ELSE @ \cup {3}]
    /\ stagesRun' = [stagesRun EXCEPT !["j1"] = Append(@, 3)]
    /\ pc' = [pc EXCEPT !["j1"] = "generate_function_docs"]
    /\ UNCHANGED << request, storage_mode, submitted, storeVars, repo_path, docs_dir, ret,
                    fsVars, stage1_error, faults, softAt, killed, escaped >>

\* agent.py lines 169-205 on the listing: one call per documented file.
FunctionDocs ==
    /\ pc["j1"] = "generate_function_docs"
    /\ LET files == documented_files(request.arg)
       IN \E failAt \in 0..Len(files) :
            /\ response' = [response EXCEPT !.body = @ \o
                               [i \in 1..(IF failAt = 0 THEN Len(files) ELSE failAt)
                                  |-> Call(4, files[i].path)]]
            /\ st' = [st EXCEPT !["j1"] =
                        IF failAt = 0
                        THEN [@ EXCEPT !.function_docs = {f.path : f \in Range(files)},
                                       !.status = "function_docs_generated"]
                        ELSE [@ EXCEPT !.error =
                                  << "Function documentation failed: ", "Error" >>]]
            /\ failed' = [failed EXCEPT !["j1"] = IF failAt = 0 THEN @ ELSE @ \cup {4}]
    /\ stagesRun' = [stagesRun EXCEPT !["j1"] = Append(@, 4)]
    /\ pc' = [pc EXCEPT !["j1"] = "generate_setup_guide"]
    /\ UNCHANGED << request, storage_mode, submitted, storeVars, repo_path, docs_dir, ret,
                    fsVars, stage1_error, faults, softAt, killed, escaped >>

\* Stage 5 succeeds and, no stage having recorded an error (tasks.py line 56),
\* lines 63-89 write the bundle.
WriteDocs ==
    /\ pc["j1"] = "generate_setup_guide"
    /\ st["j1"].error = NoError
    /\ st' = [st EXCEPT !["j1"] = generate_setup_guide(@, "ok")]
    /\ stagesRun' = [stagesRun EXCEPT !["j1"] = Append(@, 5)]
    /\ docs_dir' = [docs_dir EXCEPT !["j1"] = TRUE]
    /\ docsExists' = [docsExists EXCEPT !["j1"] = TRUE]
    /\ docsFiles' = [docsFiles EXCEPT !["j1"] = BundleFiles(st'["j1"])]
    /\ pc' = [pc EXCEPT !["j1"] = "L96"]
    /\ UNCHANGED << apiVars, storage_mode, submitted, storeVars, repo_path, ret, repoDir,
                    ns, failed, stage1_error, faults, softAt, killed, escaped >>

SelectNext ==
    \/ \E f \in Pool : Discover(f)
    \/ Analyzed
    \/ FolderReadmes
    \/ FunctionDocs
    \/ WriteDocs

SelectSpec == SelectInit /\ [][SelectNext]_vars

-----------------------------------------------------------------------------
\* Properties

\* The run of job j is over and was not ended by the hard time limit.
Ended(j) == pc[j] = "done" /\ ~killed[j]

\* C1: once a job whose run was not killed by the hard time limit is terminal,
\* neither its working copy directory nor /tmp/docs_{job_id} exists.
C1_CleanupInvariant ==
    \A j \in Jobs : Ended(j) => ~repoDir[j] /\ ~docsExists[j]

\* A failure of the kinds C2 lists happened in the run of j: acquisition, stage
\* error, bundle write, storage, metadata write, soft time limit, or a failure
\* raised by the teardown (a swallowed cleanup_repository warning is none).
Faulted(j) == faults[j] \ {"release_repo"} # {} \/ softAt[j] # "none"

\* C2: every failure inside a run that the hard time limit did not kill ends
\* with the job FAILED with a non-empty error string, and never leaves the task
\* function as an uncaught exception.
C2_FailuresEndFailed ==
    \A j \in Jobs :
        (Ended(j) /\ Faulted(j)) =>
            /\ JobState(j) = "FAILED"
            /\ GetResult(j).error # NoError
            /\ ~escaped[j]

\* The status stage k sets when it succeeds, and the head of the message it
\* records when it fails.
Marker(k) ==
    << "analyzed", "main_readme_generated", "folder_readmes_generated",
       "function_docs_generated", "completed" >>[k]

ErrorHead(k) ==
    << "Analysis failed: ", "Main README generation failed: ",
       "Folder README generation failed: ", "Function documentation failed: ",
       "Setup guide generation failed: " >>[k]

\* The accumulator of stage k.
Accumulator(k) ==
    << "analysis", "main_readme", "folder_readmes", "function_docs", "setup_guide" >>[k]

\* The position of stage k in a run.
StagePc(k) ==
    << "analyze_repository", "generate_main_readme", "generate_folder_readmes",
       "generate_function_docs", "generate_setup_guide" >>[k]

\* The run of j has got past agent.run (and the hard time limit did not end it).
PipelineReturned(j) ==
    \/ pc[j] \in {"L56", "L63", "L96", "L104"}
    \/ pc[j] \in {"L135", "done"} /\ ~killed[j] /\ "ANALYZING" \in Range(hist[j])

\* C3: whichever stages fail, the stages before stage k have all been executed
\* when stage k starts, a failed stage is followed by the next one, and a run
\* that returns from the pipeline has executed all five, in order.
C3_AllStagesRun ==
    \A j \in Jobs :
        /\ \A k \in 1..5 : pc[j] = StagePc(k) => stagesRun[j] = [i \in 1..(k - 1) |-> i]
        /\ PipelineReturned(j) => stagesRun[j] = << 1, 2, 3, 4, 5 >>

\* C3's case: stages 2 and 4 failed, and all five stages were executed.
C3_Witness ==
    \E j \in Jobs :
        pc[j] = "L56" /\ failed[j] = {2, 4} /\ stagesRun[j] = << 1, 2, 3, 4, 5 >>

\* C4: when stage 1 fails, the job ends FAILED and the error in its result is
\* the message stage 1 recorded.
C4_Stage1ErrorRecorded ==
    \A j \in Jobs :
        (Ended(j) /\ stage1_error[j] # NoError) =>
            /\ JobState(j) = "FAILED"
            /\ GetResult(j).error = stage1_error[j]

\* C5: when stage 1 failed and no external call of stages 2-5 raised (the last
\* error is stage 1's, or comes from the state itself), stages 2-5 have not
\* failed in turn and each has populated its accumulator.
C5_DegradedOutput ==
    \A j \in Jobs :
        (/\ pc[j] = "L56"
         /\ 1 \in failed[j]
         /\ (st[j].error = stage1_error[j] \/ st[j].error[2] = "KeyError")) =>
            /\ failed[j] = {1}
            /\ st[j].main_readme # ""
            /\ st[j].setup_guide # ""
            /\ st[j].status = "completed"

Rank(s) ==
    CASE s = "SUBMITTED" -> 0
      [] s = "CLONING" -> 1
      [] s = "ANALYZING" -> 2
      [] s = "GENERATING" -> 3
      [] s = "UPLOADING" -> 4
      [] OTHER -> 5

\* C6: the job states observable for one job, in order, never regress along
\* SUBMITTED, CLONING, ANALYZING, GENERATING, UPLOADING, terminal; the last one
\* is the current state; and COMPLETED comes only after UPLOADING.
C6_StatesInOrder ==
    \A j \in Jobs :
        /\ \A a, b \in DOMAIN hist[j] : a < b => Rank(hist[j][a]) < Rank(hist[j][b])
        /\ submitted[j] => hist[j][1] = "SUBMITTED" /\ hist[j][Len(hist[j])] = JobState(j)
        /\ "COMPLETED" \in Range(hist[j]) => "UPLOADING" \in Range(hist[j])

\* C6's case: a job observed in every state up to COMPLETED.
C6_Witness ==
    \E j \in Jobs :
        hist[j] = << "SUBMITTED", "CLONING", "ANALYZING", "GENERATING", "UPLOADING",
                     "COMPLETED" >>

\* C7: a job is observed in at most one terminal state, and once it is terminal
\* no step (of its own run or of another job's) changes its state or its result.
C7_TerminalImmutable ==
    /\ [](\A j \in Jobs :
            Cardinality({a \in DOMAIN hist[j] : hist[j][a] \in {"COMPLETED", "FAILED"}}) <= 1)
    /\ [][\A j \in Jobs :
            Terminal(j) => taskState'[j] = taskState[j] /\ taskInfo'[j] = taskInfo[j]]_vars

\* C7's case: one job is COMPLETED while the run of another is inside the pipeline.
C7_Witness ==
    \E j, k \in Jobs :
        j # k /\ JobState(j) = "COMPLETED" /\ pc[k] = "generate_folder_readmes"

\* C8: every submitted job eventually reaches a terminal state.
C8_EventuallyTerminal ==
    \A j \in Jobs : submitted[j] ~> Terminal(j)

\* C8's case: one run was ended by the hard time limit, another by returning.
C8_Witness ==
    \E j, k \in Jobs :
        /\ killed[j] /\ Terminal(j)
        /\ ~killed[k] /\ pc[k] = "done" /\ Terminal(k)

\* C9: once the soft time limit has been raised in a run, the run does nothing
\* but the cleanup of the finally clause.
C9_TimeoutCancels ==
    \A j \in Jobs : (softAt[j] # "none" /\ ~killed[j]) => pc[j] \in {"L135", "done"}

\* An error string that reports the soft time limit.
IsTimeoutError(e) == Len(e) > 0 /\ e[Len(e)] = "SoftTimeLimitExceeded"

\* C10: a run in which the soft time limit was raised before the result was
\* produced ends FAILED with a timeout error, never COMPLETED.
C10_TimeoutFails ==
    \A j \in Jobs :
        (Ended(j) /\ softAt[j] = "try") =>
            /\ JobState(j) = "FAILED"
            /\ IsTimeoutError(GetResult(j).error)

\* C11: when the pipeline returns with an error recorded, the orchestrator goes
\* straight to the teardown with the failed result carrying that error, the
\* job ends FAILED with it, and the run creates no bundle directory, writes no
\* file and leaves the storage namespace of the job as it was.
C11_StageErrorOnlyTeardown ==
    /\ [](\A j \in Jobs :
            "stage" \in faults[j] =>
                /\ pc[j] \in {"L135", "done"}
                /\ ~docs_dir[j] /\ ~docsExists[j] /\ docsFiles[j] = {} /\ ns[j] = {})
    /\ [][\A j \in Jobs :
            /\ (pc[j] = "L56" /\ st[j].error # NoError /\ pc'[j] # "L56") =>
                   /\ pc'[j] \in {"L135", "done"}
                   /\ pc'[j] = "L135" => ret'[j] = Info("failed", st[j].error, "")
                   /\ ns'[j] = ns[j] /\ docsExists'[j] = docsExists[j]
                   /\ docsFiles'[j] = docsFiles[j]
            /\ (pc[j] = "L135" /\ "stage" \in faults[j] /\ pc'[j] = "done" /\ ~killed'[j]) =>
                   /\ JobState(j)' = "FAILED"
                   /\ GetResult(j)'.error = ret[j].error
                   /\ ns'[j] = ns[j]]_vars

\* C11's case: a job that ended FAILED with the error of its last stage.
C11_Witness ==
    \E j \in Jobs :
        /\ "stage" \in faults[j] /\ pc[j] = "done" /\ ~killed[j]
        /\ GetResult(j).error = << "Setup guide generation failed: ", "Error" >>

\* C12: when the acquisition of the working copy fails, the job goes from
\* CLONING to FAILED: no stage runs and no bundle or storage operation happens.
C12_AcquireFailureIsFatal ==
    \A j \in Jobs :
        "acquire" \in faults[j] =>
            /\ pc[j] \in {"L135", "done"}
            /\ stagesRun[j] = << >>
            /\ ~docs_dir[j] /\ ~docsExists[j] /\ docsFiles[j] = {} /\ ns[j] = {}
            /\ hist[j] = IF pc[j] = "done" THEN << "SUBMITTED", "CLONING", "FAILED" >>
                         ELSE << "SUBMITTED", "CLONING" >>

\* C12's case: a clone that git refused ended the job FAILED.
C12_Witness ==
    \E j \in Jobs :
        /\ "acquire" \in faults[j] /\ pc[j] = "done" /\ ~killed[j]
        /\ GetResult(j).error = << "Failed to clone repository: ", "GitCommandError" >>

\* C13: the file server answers with file bytes only for a path that resolves
\* to a file inside the namespace root base_dir/job_id of the request.
C13_TraversalDenied ==
    (request.op = "serve" /\ response.code = 200) =>
        startswith(response.body, join(base_dir, request.job_id) \o << "/" >>)

\* A file of the detailed_docs directory of a bundle.
IsDetailedDoc(f) == startswith(f, << "detailed_docs", "/" >>)

\* C14: when the run is about to return (and once GetResult returns) an access
\* URL, the namespace of the job holds README.md, SETUP.md, metadata.json, one
\* README.md per directory narrative, one detailed_docs file per file
\* narrative, and nothing else.
C14_BundleComplete ==
    \A j \in Jobs :
        /\ GetResult(j).s3_url # "" => {README, SETUP, METADATA} \subseteq ns[j]
        /\ (pc[j] = "L135" /\ ret[j].s3_url # "") =>
               /\ {README, SETUP, METADATA} \subseteq ns[j]
               /\ \A f \in ns[j] \ {README, SETUP, METADATA} :
                      IsDetailedDoc(f) \/ \E d \in st[j].folder_readmes : f = join(d, README)
               /\ \A d \in st[j].folder_readmes : join(d, README) \in ns[j]
               /\ Cardinality({f \in ns[j] : IsDetailedDoc(f)})
                      = Cardinality(st[j].function_docs)

\* What an external reader can read of the namespace of job j: through the file
\* server on the local backend, the objects themselves on S3.
Readable(j) ==
    IF storage_mode = "local"
    THEN {f \in ns[j] : serve_documentation(IdOf(j), f).code = 200}
    ELSE ns[j]

\* C15: while the store operation of a job is running, no reader can read a
\* file of the job's namespace.
C15_NoPartialVisibility ==
    \A j \in Jobs : pc[j] = "L96" => Readable(j) = {}

\* C16: after a bundle has been stored under an id whose namespace held an
\* earlier bundle, the namespace holds the files of the new bundle and the
\* metadata record, and nothing else.
C16_RerunOverwrites ==
    \A j \in Jobs :
        (request.op = "store" /\ request.job_id = IdOf(j)) =>
            ns[j] = docsFiles[j] \cup {METADATA}

\* What is kept under the id of job j: its state and result, its bundle
\* directory and its storage namespace.
Own(j) == << taskState[j], taskInfo[j], hist[j], docsExists[j], docsFiles[j], ns[j] >>

\* C17: an id is handed out once, and no step changes what is kept under two
\* ids: a step of one job's run leaves every other job's state, result, bundle
\* directory and namespace alone.
C17_JobsIndependent ==
    [][\A j \in Jobs :
          /\ submitted[j] => submitted'[j] /\ (pc'[j] = "queued" => pc[j] = "queued")
          /\ \A k \in Jobs \ {j} :
                 (pc'[j] # pc[j] \/ Own(j)' # Own(j)) => Own(k)' = Own(k)]_vars

\* C17's case: one job is storing its bundle while the other is being cloned.
C17_Witness ==
    \E j, k \in Jobs :
        j # k /\ JobState(j) = "UPLOADING" /\ ns[j] # {} /\ JobState(k) = "CLONING"

\* C18: a submission whose locator fails validation is answered 400 without a
\* job id, and nothing is created: no id is handed out, no task is enqueued,
\* no job state appears.
C18_InvalidLocatorRejected ==
    [][(request'.op = "analyze" /\ ~validate_github_url(request'.arg)) =>
          /\ response' = Response(400, << >>)
          /\ UNCHANGED << submitted, pc, storeVars, localVars, fsVars >>]_vars

\* C18's case: a rejected submission after an accepted one.
C18_Witness ==
    /\ request.op = "analyze" /\ request.arg = FtpUrl
    /\ response.code = 400
    /\ \E j \in Jobs : submitted[j]

\* C19: GetState answers NotFound (404) for an id no Submit returned.
C19_UnknownIdNotFound ==
    \A j \in Jobs : ~submitted[j] => GetState(j).code = 404

\* C20: GetResult answers NotReady (202) without a payload while the job is not
\* terminal, the completed payload once it is COMPLETED and the failed payload
\* once it is FAILED.
C20_ResultOnlyWhenTerminal ==
    \A j \in Jobs :
        /\ ~Terminal(j) =>
               GetResult(j) = [code |-> 202, status |-> "", s3_url |-> "", error |-> NoError]
        /\ JobState(j) = "COMPLETED" =>
               /\ GetResult(j).code = 200 /\ GetResult(j).status = "completed"
               /\ GetResult(j).s3_url # "" /\ GetResult(j).error = NoError
        /\ JobState(j) = "FAILED" =>
               /\ GetResult(j).code = 200 /\ GetResult(j).status = "failed"
               /\ GetResult(j).s3_url = "" /\ GetResult(j).error # NoError

\* C20's case: one job is UPLOADING and not ready, another has FAILED.
C20_Witness ==
    \E j, k \in Jobs :
        /\ JobState(j) = "UPLOADING" /\ GetResult(j).code = 202
        /\ JobState(k) = "FAILED" /\ GetResult(k).status = "failed"

\* C21: release never raises; on a path whose directory is not there (it never
\* was, or was removed) it changes nothing; and a second release of the same
\* path right after a first one that removed the directory, or that met the
\* same rmtree failure, leaves the file system as the first one left it.
C21_ReleaseIdempotent ==
    [][\A j \in Jobs :
          (request'.op = "release" /\ request'.job_id = IdOf(j)) =>
              /\ response'.code = 200
              /\ ~repoDir[j] => fsVars' = fsVars
              /\ (/\ request.op = "release" /\ request.job_id = IdOf(j)
                  /\ request.arg \in {<< "ok" >>, request'.arg}) => fsVars' = fsVars]_vars

\* C21's case: a release of a path that is not there any more.
C21_Witness ==
    \E j \in Jobs :
        /\ request = Request("release", IdOf(j), << "error" >>)
        /\ response.code = 200 /\ ~repoDir[j]

\* C22: no step of the acquisition or of the release made for one job removes
\* or changes the working copy that the run of another job holds.
C22_AcquireIsolated ==
    [][\A j \in Jobs : \A k \in Jobs \ {j} :
          (pc[j] \in {"L47", "L135"} /\ pc'[j] # pc[j] /\ repo_path[k]) =>
              repoDir'[k] = repoDir[k]]_vars

\* C23: the metadata record of a job is persisted only after the store has
\* returned the access URL, and it says completed: once a job with a
\* persisted metadata record is terminal, it is COMPLETED.
C23_MetadataMatchesState ==
    \A j \in Jobs :
        METADATA \in ns[j] =>
            /\ pc[j] \in {"L135", "done"}
            /\ Terminal(j) => JobState(j) = "COMPLETED"

\* C24: stored into an empty namespace, the same bundle directory gives the
\* same relative paths on the local backend and on S3, those of the files of
\* the bundle directory and no other; and the same with metadata.json added
\* once the metadata record is stored.
C24_BackendsAgree ==
    \A j \in Jobs :
        /\ upload_documentation("local", IdOf(j), {}, docsFiles[j])
               = upload_documentation("s3", IdOf(j), {}, docsFiles[j])
        /\ pc[j] = "L104" => ns[j] = docsFiles[j]
        /\ (pc[j] = "L135" /\ ret[j].status = "completed") =>
               ns[j] = docsFiles[j] \cup {METADATA}

\* C24's case: a bundle with a directory narrative and a file narrative has
\* been stored on S3, and its metadata record after it.
C24_Witness ==
    \E j \in Jobs :
        /\ storage_mode = "s3" /\ pc[j] = "L135" /\ ret[j].status = "completed"
        /\ \E f \in ns[j] : IsDetailedDoc(f)
        /\ \E d \in RepoDirs(j) : join(d, README) \in ns[j]

\* The two shapes of a locator: https://github.com/{owner}/{repo} with an
\* optional trailing slash, and git@github.com:{owner}/{repo}.git.
IsHttpsShape(u) ==
    \E n \in 2..Len(u) :
        /\ SubSeq(u, 1, n) = HttpsGithub \o << u[n - 1], "/" >>
        /\ IsWord(u[n - 1])
        /\ \/ IsRepoName(SubSeq(u, n + 1, Len(u)))
           \/ u[Len(u)] = "/" /\ IsRepoName(SubSeq(u, n + 1, Len(u) - 1))

IsSshShape(u) ==
    \E n \in 2..Len(u) :
        /\ SubSeq(u, 1, n) = GitAtGithub \o << u[n - 1], "/" >>
        /\ IsWord(u[n - 1])
        /\ \E m \in (n + 1)..Len(u) :
               IsRepoName(SubSeq(u, n + 1, m)) /\ SubSeq(u, m + 1, Len(u)) = << ".", "git" >>

\* C25: a submission is accepted when its locator has one of the two shapes,
\* and rejected (400) for every other string.
C25_ValidationExact ==
    request.op = "analyze" =>
        (response.code = 200 <=> IsHttpsShape(request.arg) \/ IsSshShape(request.arg))

\* C26: in a pipeline run the stages started so far are always 1, 2, .. n in
\* this order, each once; a step that runs a stage runs the one the run is at,
\* and only that one, and takes the run to the stage after it (to the return
\* of the pipeline after the fifth); a run is at one position at a time.
C26_StagesOnceInOrder ==
    /\ [](\A j \in Jobs : \E n \in 0..5 : stagesRun[j] = [i \in 1..n |-> i])
    /\ [][\A j \in Jobs :
            LET k == Len(stagesRun[j]) + 1
            IN /\ stagesRun'[j] # stagesRun[j] =>
                      /\ k <= 5 /\ pc[j] = StagePc(k)
                      /\ stagesRun'[j] = Append(stagesRun[j], k)
                      /\ pc'[j] = IF k = 5 THEN "L56" ELSE StagePc(k + 1)
               /\ (k <= 5 /\ pc[j] = StagePc(k) /\ pc'[j] # pc[j] /\ ~killed'[j]) =>
                      stagesRun'[j] # stagesRun[j]]_vars

\* C26's case: one run has been through the five stages, the third of which
\* failed, while another run is between its second and third stage.
C26_Witness ==
    \E j, k \in Jobs :
        /\ stagesRun[j] = << 1, 2, 3, 4, 5 >> /\ failed[j] = {3}
        /\ stagesRun[k] = << 1, 2 >> /\ pc[k] = "generate_folder_readmes"

\* A step of the run of j in which a stage ran and recorded an error.
StageFailed(j) == stagesRun'[j] # stagesRun[j] /\ st'[j].error # st[j].error

\* C27: a stage that fails returns the state as it received it but for the
\* error: its accumulator, the other accumulators, the status and the inputs
\* are unchanged.
C27_FailedStageFrame ==
    [][\A j \in Jobs :
          StageFailed(j) => st'[j] = [st[j] EXCEPT !.error = st'[j].error]]_vars

\* The run of j is inside the pipeline or at its return.
InPipeline(j) == pc[j] = "L56" \/ \E k \in 1..5 : pc[j] = StagePc(k)

\* The last of the stages that failed in the run of j.
LastFailed(j) == CHOOSE k \in failed[j] : \A m \in failed[j] : m <= k

\* C28: the error of the state is empty while no stage has failed and is the
\* message of the last stage that failed otherwise; a stage that succeeds
\* leaves the error as it was, a stage that does not records its own message;
\* so a run in which a stage failed returns with the error set.
C28_ErrorIsLastFailure ==
    /\ [](\A j \in Jobs :
            InPipeline(j) =>
                IF failed[j] = {} THEN st[j].error = NoError
                ELSE st[j].error # NoError /\ st[j].error[1] = ErrorHead(LastFailed(j)))
    /\ [][\A j \in Jobs :
            stagesRun'[j] # stagesRun[j] =>
                LET k == Len(stagesRun[j]) + 1
                IN IF st'[j].status = Marker(k) THEN st'[j].error = st[j].error
                   ELSE st'[j].error # NoError /\ st'[j].error[1] = ErrorHead(k)]_vars

\* C28's case: the third stage failed, the fourth and the fifth succeeded, and
\* the pipeline returns with the message of the third.
C28_Witness ==
    \E j \in Jobs :
        /\ pc[j] = "L56" /\ failed[j] = {3} /\ st[j].status = "completed"
        /\ st[j].error = << "Folder README generation failed: ", "Error" >>

\* The stages that have succeeded so far in the run of j.
Succeeded(j) == Range(stagesRun[j]) \ failed[j]

\* C29: after every stage the status of the state is the marker of the last
\* stage that succeeded, or the initial value when none has; it is never
\* anything else, and a stage that fails leaves it as it was.
C29_StatusIsLastSuccess ==
    \A j \in Jobs :
        InPipeline(j) =>
            st[j].status =
                IF Succeeded(j) = {} THEN InitialState(j).status
                ELSE Marker(CHOOSE k \in Succeeded(j) : \A m \in Succeeded(j) : m <= k)

\* C30: the step of stage k changes no accumulator but the one of stage k and
\* changes neither input field, so an accumulator has its initial value until
\* its own stage runs and keeps what that stage stored to the return of the
\* pipeline.
C30_AccumulatorsOwned ==
    /\ [](\A j \in Jobs :
            InPipeline(j) =>
                /\ st[j].repo_path = InitialState(j).repo_path
                /\ st[j].repo_name = InitialState(j).repo_name
                /\ \A k \in (Len(stagesRun[j]) + 1)..5 :
                       st[j][Accumulator(k)] = InitialState(j)[Accumulator(k)])
    /\ [][\A j \in Jobs :
            stagesRun'[j] # stagesRun[j] =>
                \A f \in DOMAIN st[j] \ {Accumulator(Len(stagesRun[j]) + 1), "status", "error"} :
                    st'[j][f] = st[j][f]]_vars

\* C30's case: the pipeline returns with all five accumulators populated.
C30_Witness ==
    \E j \in Jobs :
        /\ pc[j] = "L56" /\ failed[j] = {}
        /\ st[j].analysis = AnalysisKeys /\ st[j].main_readme # ""
        /\ st[j].folder_readmes # {} /\ st[j].function_docs # {}
        /\ st[j].setup_guide # ""

\* C31: when the bundle has been written, no two file narratives have been
\* written under one name, and detailed_docs holds as many files as there are
\* file narratives.
C31_OneFilePerNarrative ==
    \A j \in Jobs :
        pc[j] = "L96" =>
            /\ \A f, g \in st[j].function_docs : f # g => safe_name(f) # safe_name(g)
            /\ Cardinality({f \in docsFiles[j] : IsDetailedDoc(f)})
                   = Cardinality(st[j].function_docs)


\* C35: a failure of the teardown does not change the outcome: when the task
\* function ends (the hard time limit did not kill it), the result recorded
\* for the job is the result the run had computed before the teardown.
C35_TeardownKeepsOutcome ==
    [][\A j \in Jobs :
         (pc[j] = "L135" /\ pc'[j] = "done" /\ ~killed'[j]) =>
             taskState'[j] = "SUCCESS" /\ taskInfo'[j] = ret[j]]_vars

\* C36: once a job whose acquire failed is terminal, the directory the failed
\* acquire created is not on disk.
C36_FailedAcquireLeavesNothing ==
    \A j \in Jobs : (Ended(j) /\ "acquire" \in faults[j]) => ~repoDir[j]


\* The text-generation calls stage k has made in the run.
CallsOf(k) == SelectSeq(response.body, LAMBDA c : c.stage = k)

\* C32: whatever the listing holds, a run keeps at most 5 directory narratives
\* and at most 3 file narratives, makes at most 5 calls in stage 3 and 3 in
\* stage 4, never calls twice about the same directory or file, every
\* narrative it keeps comes from a call, and a stage that succeeded made
\* exactly one call per narrative.
C32_BoundedNarratives ==
    /\ Cardinality(st["j1"].folder_readmes) <= 5
    /\ Cardinality(st["j1"].function_docs) <= 3
    /\ Len(CallsOf(3)) <= 5
    /\ Len(CallsOf(4)) <= 3
    /\ \A i, k \in DOMAIN response.body : i # k => response.body[i] # response.body[k]
    /\ st["j1"].folder_readmes \subseteq {c.about : c \in Range(CallsOf(3))}
    /\ st["j1"].function_docs \subseteq {c.about : c \in Range(CallsOf(4))}
    /\ st["j1"].status = "folder_readmes_generated" =>
           Len(CallsOf(3)) = Cardinality(st["j1"].folder_readmes)
    /\ st["j1"].status = "function_docs_generated" =>
           Len(CallsOf(4)) = Cardinality(st["j1"].function_docs)

\* A run over a listing with more than 5 directories and more than 3 files
\* wrote a bundle with 5 directory narratives and 3 file narratives.
C32_Witness ==
    /\ pc["j1"] = "L96"
    /\ Len(group_files_by_directory(request.arg)) > 5
    /\ Len(request.arg) > 3
    /\ Cardinality(st["j1"].folder_readmes) = 5
    /\ Cardinality(st["j1"].function_docs) = 3
    /\ Len(response.body) = 8


\* The place of file f in the listing.
Discovered(f) == CHOOSE i \in DOMAIN request.arg : request.arg[i] = f

\* C33: in the ranking of the listing every file with an entry-point hint
\* comes before every file without one, files with the same score keep the
\* order of discovery, and when stage 4 has succeeded a file among the first
\* 3 of the ranking has no narrative only if its read raises or it is over
\* max_size.
C33_KeyFileSelection ==
    LET ranked == select_key_files(request.arg)
    IN /\ \A i, k \in DOMAIN ranked :
             /\ (HasHint(ranked[k]) /\ ~HasHint(ranked[i])) => k < i
             /\ (i < k /\ Score(ranked[i]) = Score(ranked[k])) =>
                    Discovered(ranked[i]) < Discovered(ranked[k])
       /\ st["j1"].status \in {"function_docs_generated", "completed"} =>
             \A i \in DOMAIN ranked :
                 (i <= 3 /\ ranked[i].path \notin st["j1"].function_docs) =>
                     ranked[i].content = Unreadable \/ ranked[i].size > 1000000


\* C34: when the bundle has been written, README.md and SETUP.md at its root
\* were each written exactly once, by the primary narrative and the setup
\* guide: no directory narrative and no file narrative was written to either
\* path, and the root of the repository has no directory narrative.
C34_RootNarrativesWrittenOnce ==
    \A j \in Jobs :
        pc[j] = "L96" =>
            /\ docsFiles[j] = {w.path : w \in BundleWrites(st[j])}
            /\ \A p \in {README, SETUP} :
                   Cardinality({w \in BundleWrites(st[j]) : w.path = p}) = 1
            /\ \A w \in BundleWrites(st[j]) :
                   w.kind \in {"folder_readme", "function_doc"} => w.path \notin {README, SETUP}
            /\ << >> \notin st[j].folder_readmes

\* A bundle was written for a listing with files at the root and files below
\* it, with directory narratives and a narrative for a file at the root.
C34_Witness ==
    /\ pc["j1"] = "L96"
    /\ << >> \in Range(group_files_by_directory(request.arg))
    /\ st["j1"].folder_readmes # {}
    /\ \E f \in st["j1"].function_docs : dirname(f) = << >>

====
